---- MODULE Spec2Model ----
(***************************************************************************)
(* Model of src/app.py: the Streamlit "Government Budget Validator".       *)
(*                                                                         *)
(* One script run is modelled as a state machine whose program counter pc  *)
(* follows the statements of app.py (lines 51-169).  Every st.* call is    *)
(* recorded, in order, in the sequence out.  make_unique (lines 24-43) is  *)
(* modelled by the operator make_unique, built from the loop body          *)
(* MakeUniqueBody; the specification SpecDedupe runs that loop on inputs   *)
(* drawn from a bounded set.                                               *)
(*                                                                         *)
(* Strings are sequences of one-character strings, so that strip, lower,   *)
(* substring tests, the f-string suffix and the numeric conversions are    *)
(* computed character by character, as Python computes them.               *)
(* Amounts are fixed-point integers counted in thousandths (0.001).        *)
(*                                                                         *)
(* Library behaviour the model relies on:                                  *)
(*  - st.stop() raises a BaseException, which "except Exception" does not  *)
(*    catch: the run ends there;                                           *)
(*  - pd.concat raises when the frames' columns differ and one frame has   *)
(*    a repeated label;                                                    *)
(*  - full_table[col] is a DataFrame when the label col is repeated, and   *)
(*    a DataFrame has no .str accessor, so line 110 raises;                *)
(*  - the display calls (st.write and the like) do not raise.              *)
(***************************************************************************)
EXTENDS Integers, Sequences, FiniteSets, TLC

VARIABLES
    pc,               \* position of the script run (app.py:51-169)
    file_type,        \* uploaded_file.type, "none" while nothing is uploaded
    pages_left,       \* pages of pdf.pages not yet visited by the loop at line 61
    page_number,      \* enumerate(pdf.pages, start=1)
    tables,           \* the list tables (line 59): accepted DataFrames
    text_content,     \* the transcript (line 60)
    full_table,       \* the combined DataFrame (line 88), NoFrame before
    amount_columns,   \* line 103
    total_calculated, \* line 115, in thousandths
    out,              \* the st.* calls made so far, in order
    co_calls,         \* number of co.generate calls made (line 143)
    columns,          \* make_unique: the argument
    counts,           \* make_unique: the dict counts (line 29)
    new_columns,      \* make_unique: the list new_columns (line 30)
    mu_pc             \* make_unique: "idle", "loop" or "returned"

vars == <<pc, file_type, pages_left, page_number, tables, text_content,
          full_table, amount_columns, total_calculated, out, co_calls,
          columns, counts, new_columns, mu_pc>>

runVars == <<pc, file_type, pages_left, page_number, tables, text_content,
             full_table, amount_columns, total_calculated, out, co_calls>>

muVars == <<columns, counts, new_columns, mu_pc>>

----------------------------------------------------------------------------
(* Bounds of the model.                                                    *)

\* Largest number of pages of an uploaded PDF.
MaxPages == 2

\* Longest label sequence given to make_unique in SpecDedupe.
MaxLen == 3

----------------------------------------------------------------------------
(* Strings.                                                                *)

\* Python's None, as a column label or a cell.  It is a one-element
\* sequence whose element is no character, so it differs from every string.
None == <<"<None>">>

\* Characters str.strip() removes (the ASCII whitespace the model uses).
Whitespace == {" ", "\t", "\n"}

UpperLetters == <<"A","B","C","D","E","F","G","H","I","J","K","L","M",
                  "N","O","P","Q","R","S","T","U","V","W","X","Y","Z">>

LowerLetters == <<"a","b","c","d","e","f","g","h","i","j","k","l","m",
                  "n","o","p","q","r","s","t","u","v","w","x","y","z">>

Digits == <<"0","1","2","3","4","5","6","7","8","9">>

IsDigit(c) == \E i \in 1..10 : Digits[i] = c

DigitValue(c) == (CHOOSE i \in 1..10 : Digits[i] = c) - 1

\* str(col) of line 35 and line 97: a string is itself, None is "None".
Str(col) == IF col = None THEN <<"N","o","n","e">> ELSE col

\* str.strip(): drop leading and trailing whitespace.
RECURSIVE LStrip(_)
LStrip(s) ==
    IF s # <<>> /\ Head(s) \in Whitespace THEN LStrip(Tail(s)) ELSE s

RECURSIVE RStrip(_)
RStrip(s) ==
    IF s # <<>> /\ s[Len(s)] \in Whitespace
    THEN RStrip(SubSeq(s, 1, Len(s) - 1))
    ELSE s

Strip(s) == RStrip(LStrip(s))

\* str.lower(), character by character.
LowerChar(c) ==
    IF \E i \in 1..26 : UpperLetters[i] = c
    THEN LowerLetters[CHOOSE i \in 1..26 : UpperLetters[i] = c]
    ELSE c

Lower(s) == [i \in 1..Len(s) |-> LowerChar(s[i])]

\* sub in s
Contains(sub, s) ==
    \E i \in 1..(Len(s) - Len(sub) + 1) : SubSeq(s, i, i + Len(sub) - 1) = sub

\* str(n) for a natural number n.
RECURSIVE IntToStr(_)
IntToStr(n) ==
    IF n < 10 THEN <<Digits[n + 1]>>
    ELSE IntToStr(n \div 10) \o <<Digits[(n % 10) + 1]>>

\* s.replace(c, '') for a single character c.
RemoveChars(s, cs) == SelectSeq(s, LAMBDA c : c \notin cs)

\* True when no two entries of the sequence are equal.
NoDuplicates(s) == \A i, j \in 1..Len(s) : i # j => s[i] # s[j]

\* pandas Index.duplicated().any()
HasDuplicates(s) == ~NoDuplicates(s)

----------------------------------------------------------------------------
(* make_unique, app.py:24-43.                                              *)

\* One iteration of the loop at lines 31-42 for the entry col, from the
\* dict cnt and the list new: the dict and the list after the iteration.
MakeUniqueBody(col, cnt, new) ==
    LET c == Strip(Str(IF col = None THEN <<"U","n","n","a","m","e","d">> ELSE col)) IN
    IF c \in DOMAIN cnt
    THEN [counts |-> [cnt EXCEPT ![c] = cnt[c] + 1],
          new_columns |-> Append(new, c \o <<".">> \o IntToStr(cnt[c] + 1))]
    ELSE [counts |-> [k \in (DOMAIN cnt) \cup {c} |-> IF k = c THEN 0 ELSE cnt[k]],
          new_columns |-> Append(new, c)]

EmptyDict == [k \in {} |-> 0]

RECURSIVE MakeUniqueFrom(_, _, _, _)
MakeUniqueFrom(cols, i, cnt, new) ==
    IF i > Len(cols) THEN new
    ELSE LET r == MakeUniqueBody(cols[i], cnt, new) IN
         MakeUniqueFrom(cols, i + 1, r.counts, r.new_columns)

\* make_unique(columns): the whole call.
make_unique(cols) == MakeUniqueFrom(cols, 1, EmptyDict, <<>>)

----------------------------------------------------------------------------
(* Numbers.  float() at line 123 and pd.to_numeric at line 112 are         *)
(* modelled on unsigned decimal literals: digits with at most one point.   *)
(* Values are exact integers counted in thousandths.                       *)

RECURSIVE DigitsValue(_)
DigitsValue(s) ==
    IF s = <<>> THEN 0
    ELSE 10 * DigitsValue(SubSeq(s, 1, Len(s) - 1)) + DigitValue(s[Len(s)])

\* Can the string be read as a decimal literal ("12", "12.5", "12.", ".5")?
IsDecimal(s) ==
    /\ \A i \in 1..Len(s) : IsDigit(s[i]) \/ s[i] = "."
    /\ \E i \in 1..Len(s) : IsDigit(s[i])
    /\ Cardinality({i \in 1..Len(s) : s[i] = "."}) <= 1

\* The value, in thousandths, of a decimal literal with at most three
\* fractional digits.
DecimalValue(s) ==
    LET dot  == IF \E i \in 1..Len(s) : s[i] = "."
                THEN CHOOSE i \in 1..Len(s) : s[i] = "."
                ELSE Len(s) + 1
        int  == SubSeq(s, 1, dot - 1)
        frac == SubSeq(s, dot + 1, Len(s))
        pad  == SubSeq(frac \o <<"0","0","0">>, 1, 3)
    IN  1000 * DigitsValue(int) + DigitsValue(pad)

\* abs()
Abs(x) == IF x < 0 THEN -x ELSE x

\* The literal 0.01 of line 125, in thousandths.
Tolerance == 10

----------------------------------------------------------------------------
(* The transcript and the regular expression of line 119.                  *)
(* A text is a sequence of tokens: a token is a single character (a digit, *)
(* ",", ".", ":", " ", "\n") or a word of letters, of which the phrase     *)
(* "Total Amount" in any letter case is the one the expression looks for.  *)

IsNumChar(c) == IsDigit(c) \/ c \in {",", "."}

\* re.IGNORECASE match of the literal "Total Amount".
IsTotalAmount(tok) ==
    tok \in {"Total Amount", "TOTAL AMOUNT", "total amount", "Total amount"}

\* ".*?" then the first character of the group: the first position at or
\* after j that holds a digit, comma or period, with no newline before it
\* ("." does not match a newline); 0 when there is none.
RECURSIVE CaptureStart(_, _)
CaptureStart(t, j) ==
    IF j > Len(t) \/ t[j] = "\n" THEN 0
    ELSE IF IsNumChar(t[j]) THEN j
    ELSE CaptureStart(t, j + 1)

\* "[\d,\.]+" is greedy: the last position of the run that starts at j.
RECURSIVE RunEnd(_, _)
RunEnd(t, j) ==
    IF j + 1 <= Len(t) /\ IsNumChar(t[j + 1]) THEN RunEnd(t, j + 1) ELSE j

\* re.findall(r'Total Amount.*?([\d,\.]+)', t, re.IGNORECASE) from position
\* i on: the captured groups of the non-overlapping matches, left to right.
RECURSIVE FindAllFrom(_, _)
FindAllFrom(t, i) ==
    IF i > Len(t) THEN <<>>
    ELSE IF IsTotalAmount(t[i])
         THEN LET s == CaptureStart(t, i + 1) IN
              IF s = 0 THEN FindAllFrom(t, i + 1)
              ELSE <<SubSeq(t, s, RunEnd(t, s))>> \o FindAllFrom(t, RunEnd(t, s) + 1)
         ELSE FindAllFrom(t, i + 1)

FindAll(t) == FindAllFrom(t, 1)

----------------------------------------------------------------------------
(* DataFrames.  A frame is a record [columns, rows]: the column labels and *)
(* the rows, each row a sequence of cells as long as columns.              *)

NoFrame == [columns |-> <<>>, rows |-> <<>>, made |-> FALSE]

Frame(cols, rows) == [columns |-> cols, rows |-> rows, made |-> TRUE]

\* pd.DataFrame(table[1:], columns=table[0]), line 72.
DataFrame(table) == Frame(Head(table), Tail(table))

\* The labels of several indexes in first-seen order (the outer join of
\* pd.concat with sort=False).
RECURSIVE UnionLabels(_, _)
UnionLabels(labels, acc) ==
    IF labels = <<>> THEN acc
    ELSE UnionLabels(Tail(labels),
                     IF \E i \in 1..Len(acc) : acc[i] = Head(labels)
                     THEN acc ELSE Append(acc, Head(labels)))

RECURSIVE AllLabels(_)
AllLabels(dfs) ==
    IF dfs = <<>> THEN <<>> ELSE Head(dfs).columns \o AllLabels(Tail(dfs))

SameColumns(dfs) == \A i \in 1..Len(dfs) : dfs[i].columns = dfs[1].columns

\* pd.concat raises (InvalidIndexError) when the frames' columns differ and
\* one of the frames has a repeated label: such a frame cannot be reindexed.
ConcatRaises(dfs) ==
    ~SameColumns(dfs) /\ \E i \in 1..Len(dfs) : HasDuplicates(dfs[i].columns)

\* A row of frame df laid out under the labels cols; a label the frame
\* lacks gives a missing cell.
Reindex(df, row, cols) ==
    [k \in 1..Len(cols) |->
        IF \E j \in 1..Len(df.columns) : df.columns[j] = cols[k]
        THEN row[CHOOSE j \in 1..Len(df.columns) : df.columns[j] = cols[k]]
        ELSE None]

RECURSIVE ConcatRows(_, _)
ConcatRows(dfs, cols) ==
    IF dfs = <<>> THEN <<>>
    ELSE [r \in 1..Len(Head(dfs).rows) |-> Reindex(Head(dfs), Head(dfs).rows[r], cols)]
         \o ConcatRows(Tail(dfs), cols)

RECURSIVE PlainRows(_)
PlainRows(dfs) ==
    IF dfs = <<>> THEN <<>> ELSE Head(dfs).rows \o PlainRows(Tail(dfs))

\* pd.concat(tables, ignore_index=True), line 88, when it does not raise.
Concat(dfs) ==
    IF SameColumns(dfs)
    THEN Frame(dfs[1].columns, PlainRows(dfs))
    ELSE LET cols == UnionLabels(AllLabels(dfs), <<>>) IN
         Frame(cols, ConcatRows(dfs, cols))

\* Line 97: [str(col).strip().lower() for col in full_table.columns]
NormalizeLabel(col) == Lower(Strip(Str(col)))

NormalizeColumns(cols) == [i \in 1..Len(cols) |-> NormalizeLabel(cols[i])]

\* Line 103: 'amount' in col or 'price' in col or 'total' in col
IsAmountLabel(col) ==
    \/ Contains(<<"a","m","o","u","n","t">>, col)
    \/ Contains(<<"p","r","i","c","e">>, col)
    \/ Contains(<<"t","o","t","a","l">>, col)

\* Mutant: every column is taken for an amount column.
AmountColumnsAll(cols) == cols

AmountColumns(cols) == SelectSeq(cols, IsAmountLabel)

\* full_table[col] is a Series only when one column bears the label; with a
\* repeated label it is a DataFrame, which has no .str accessor, so line
\* 110 raises AttributeError.
NormalizeRaises(cols, amts) ==
    \E i \in 1..Len(amts) :
        Cardinality({j \in 1..Len(cols) : cols[j] = amts[i]}) > 1

\* Lines 109-112 on one cell: strip "$" and ",", strip "," again, then
\* pd.to_numeric(errors='coerce').  A numeric cell is [num, val]; num is
\* FALSE for NaN.
NaN == [num |-> FALSE, val |-> 0]

ToNumeric(cell) ==
    IF cell = None THEN NaN
    ELSE LET s == RemoveChars(RemoveChars(cell, {"$", ","}), {","}) IN
         IF IsDecimal(s) THEN [num |-> TRUE, val |-> DecimalValue(s)] ELSE NaN

\* Lines 107-112 for every amount column.
NormalizeAmounts(df, amts) ==
    [df EXCEPT !.rows =
        [r \in 1..Len(df.rows) |->
            [k \in 1..Len(df.columns) |->
                IF \E i \in 1..Len(amts) : amts[i] = df.columns[k]
                THEN ToNumeric(df.rows[r][k])
                ELSE df.rows[r][k]]]]

RECURSIVE SumCells(_)
SumCells(cells) ==
    IF cells = <<>> THEN 0
    ELSE (IF Head(cells).num THEN Head(cells).val ELSE 0) + SumCells(Tail(cells))

RECURSIVE SumRows(_, _)
SumRows(rows, ks) ==
    IF rows = <<>> THEN 0
    ELSE SumCells([i \in 1..Len(ks) |-> Head(rows)[ks[i]]]) + SumRows(Tail(rows), ks)

\* Line 115: full_table[amount_columns].sum(numeric_only=True).sum() on the
\* normalized frame: NaN cells are skipped.
SumAmounts(df, amts) ==
    LET ks == SelectSeq([k \in 1..Len(df.columns) |-> k],
                        LAMBDA k : \E i \in 1..Len(amts) : amts[i] = df.columns[k])
    IN  SumRows(df.rows, ks)

----------------------------------------------------------------------------
(* The inputs of a run: what pdfplumber returns for a page.                *)

L_Item     == <<"I","t","e","m">>
L_ItemSp   == <<"i","t","e","m"," ">>
L_Notes    == <<"N","o","t","e","s">>
L_Amount   == <<"A","m","o","u","n","t">>
L_AmountSp == <<" ","a","m","o","u","n","t">>
L_Amount1  == <<"A","m","o","u","n","t",".","1">>
L_Total    == <<"S","u","b","t","o","t","a","l">>
L_Price    == <<"P","R","I","C","E">>

C_Wood  == <<"W","o","o","d">>
C_Nails == <<"N","a","i","l","s">>
C_1000  == <<"$","1",",","0","0","0">>
C_50    == <<"$","5","0",".","0","0">>
C_Mill5 == <<"0",".","0","0","5">>
C_NA    == <<"n","/","a">>

\* Tables as page.extract_tables() returns them: a list of rows, the first
\* being the header candidate.
T_Empty      == <<>>
T_HeaderOnly == << <<L_Item, L_Amount>> >>
T_NoHeader   == << <<>>, <<>> >>
T_Items      == << <<L_Item, L_Amount>>, <<C_Wood, C_1000>>, <<C_Nails, C_50>> >>
T_Subtotal   == << <<L_Total>>, <<C_Mill5>>, <<C_NA>>, <<None>> >>
T_Notes      == << <<L_Item, L_Notes>>, <<C_Wood, C_NA>> >>
T_ItemItem   == << <<L_Item, L_ItemSp>>, <<C_Wood, C_Nails>> >>
T_Repeated   == << <<L_Amount, L_Amount>>, <<C_1000, C_50>> >>
T_CaseOnly   == << <<L_Amount, L_AmountSp>>, <<C_1000, C_50>> >>
T_Collide    == << <<L_Amount, L_Amount, L_Amount1>>, <<C_1000, C_50, None>> >>
T_Price      == << <<None, L_Price>>, <<C_Wood, C_50>> >>

\* What page.extract_tables() may return for one page.
PageTables ==
    { <<>>, <<T_Empty, T_HeaderOnly, T_NoHeader>>, <<T_Items>>,
      <<T_Subtotal>>, <<T_Notes>>, <<T_NoHeader, T_ItemItem>>, <<T_Repeated>>,
      <<T_CaseOnly>>, <<T_Collide>>, <<T_Price>> }

\* What page.extract_text() may return for one page (<<>> stands for None
\* and for the empty string: both are falsy at line 64).
X_Nothing  == <<>>
X_1050     == <<"Total Amount", ":", " ", "1", ",", "0", "5", "0", ".", "0", "0">>
X_1050_01  == <<"TOTAL AMOUNT", " ", "1", "0", "5", "0", ".", "0", "1">>
X_Dots     == <<"total amount", " ", "1", ".", "2", ".", "3">>
X_NewLine  == <<"Total Amount", ":", "\n", "2", "0", "0", "0">>

PageTexts == {X_Nothing, X_1050, X_1050_01, X_Dots, X_NewLine}

----------------------------------------------------------------------------
(* The st.* calls.                                                         *)

Call(kind, sev, data) == [kind |-> kind, sev |-> sev, data |-> data]

Emitted(kind) == \E i \in 1..Len(out) : out[i].kind = kind

Count(kind) == Cardinality({i \in 1..Len(out) : out[i].kind = kind})

\* Position of the first call of the kind in out, 0 when there is none.
FirstIndex(kind) ==
    IF Emitted(kind) THEN CHOOSE i \in 1..Len(out) :
                              /\ out[i].kind = kind
                              /\ \A j \in 1..(i - 1) : out[j].kind # kind
    ELSE 0

\* Lines 167-169: the handler of the try block.
ExceptionCalls(what) ==
    << Call("processing_error", "error", what), Call("traceback", "exception", what) >>

----------------------------------------------------------------------------
(* The page loop, lines 61-81.                                             *)

\* Lines 70-81 for one table of a page: the list tables and the calls made.
TableStep(table, table_number, acc) ==
    IF Len(table) > 1 /\ Len(table[1]) > 0
    THEN LET df == DataFrame(table) IN
         IF HasDuplicates(df.columns)
         THEN [tables |-> Append(acc.tables, [df EXCEPT !.columns = make_unique(df.columns)]),
               calls  |-> Append(acc.calls,
                                 Call("duplicate_columns", "warning", <<table_number, page_number>>))]
         ELSE [tables |-> Append(acc.tables, df), calls |-> acc.calls]
    ELSE [tables |-> acc.tables,
          calls  |-> Append(acc.calls,
                            Call("skipped_table", "warning", <<table_number, page_number>>))]

\* Lines 69-81: the loop over the tables of a page.
RECURSIVE TableLoop(_, _, _)
TableLoop(page_tables, table_number, acc) ==
    IF table_number > Len(page_tables) THEN acc
    ELSE TableLoop(page_tables, table_number + 1,
                   TableStep(page_tables[table_number], table_number, acc))

----------------------------------------------------------------------------
(* A run of the script.                                                    *)

PdfType == "application/pdf"

OtherTypes == {"text/plain"}

RunInit ==
    /\ pc = "startup"
    /\ file_type = "none"
    /\ pages_left = 0
    /\ page_number = 1
    /\ tables = <<>>
    /\ text_content = <<>>
    /\ full_table = NoFrame
    /\ amount_columns = <<>>
    /\ total_calculated = 0
    /\ out = <<>>
    /\ co_calls = 0

MuIdle ==
    /\ columns = <<>>
    /\ counts = EmptyDict
    /\ new_columns = <<>>
    /\ mu_pc = "idle"

Init == RunInit /\ MuIdle

\* What a step of the run changes, besides pc and out.
Goto(next, calls) ==
    /\ pc' = next
    /\ out' = out \o calls

\* Lines 17-19: no API key in the environment.
ApiKeyMissing ==
    /\ pc = "startup"
    /\ Goto("stopped", << Call("no_api_key", "error", <<>>) >>)
    /\ UNCHANGED <<file_type, pages_left, page_number, tables, text_content,
                   full_table, amount_columns, total_calculated, co_calls>>
    /\ UNCHANGED muVars

\* Lines 21-49: the client is created, the title and the uploader are shown.
CreateClient ==
    /\ pc = "startup"
    /\ Goto("upload", <<>>)
    /\ UNCHANGED <<file_type, pages_left, page_number, tables, text_content,
                   full_table, amount_columns, total_calculated, co_calls>>
    /\ UNCHANGED muVars

\* Line 51: uploaded_file is None, nothing more runs.
NoUpload ==
    /\ pc = "upload"
    /\ Goto("done", <<>>)
    /\ UNCHANGED <<file_type, pages_left, page_number, tables, text_content,
                   full_table, amount_columns, total_calculated, co_calls>>
    /\ UNCHANGED muVars

\* Lines 53-54: the upload is not a PDF.
UploadOther ==
    /\ pc = "upload"
    /\ \E t \in OtherTypes : file_type' = t
    /\ Goto("done", << Call("invalid_file_type", "error", <<>>) >>)
    /\ UNCHANGED <<pages_left, page_number, tables, text_content,
                   full_table, amount_columns, total_calculated, co_calls>>
    /\ UNCHANGED muVars

\* Lines 53-56: the upload is a PDF, the try block is entered.
UploadPdf ==
    /\ pc = "upload"
    /\ file_type' = PdfType
    /\ Goto("open", <<>>)
    /\ UNCHANGED <<pages_left, page_number, tables, text_content,
                   full_table, amount_columns, total_calculated, co_calls>>
    /\ UNCHANGED muVars

\* Lines 58-60: pdfplumber opens the bytes; the document has some pages.
OpenPdf ==
    /\ pc = "open"
    /\ \E n \in 0..MaxPages : pages_left' = n
    /\ page_number' = 1
    /\ tables' = <<>>
    /\ text_content' = <<>>
    /\ Goto("pages", <<>>)
    /\ UNCHANGED <<file_type, full_table, amount_columns, total_calculated, co_calls>>
    /\ UNCHANGED muVars

\* Line 58 raises (the bytes are no PDF); lines 167-169 handle it.
OpenRaises ==
    /\ pc = "open"
    /\ Goto("done", ExceptionCalls("open"))
    /\ UNCHANGED <<file_type, pages_left, page_number, tables, text_content,
                   full_table, amount_columns, total_calculated, co_calls>>
    /\ UNCHANGED muVars

\* Lines 61-81: one iteration of the loop over the pages.
ProcessPage ==
    /\ pc = "pages"
    /\ pages_left > 0
    /\ \E page_text \in PageTexts, page_tables \in PageTables :
          LET r == TableLoop(page_tables, 1, [tables |-> tables, calls |-> <<>>]) IN
          /\ text_content' = IF page_text # <<>>
                             THEN text_content \o page_text \o <<"\n">>
                             ELSE text_content
          /\ tables' = r.tables
          /\ Goto("pages", r.calls)
    /\ pages_left' = pages_left - 1
    /\ page_number' = page_number + 1
    /\ UNCHANGED <<file_type, full_table, amount_columns, total_calculated, co_calls>>
    /\ UNCHANGED muVars

\* Lines 63 or 68 raise on a page; lines 167-169 handle it.
ExtractRaises ==
    /\ pc = "pages"
    /\ pages_left > 0
    /\ Goto("done", ExceptionCalls("extract"))
    /\ UNCHANGED <<file_type, pages_left, page_number, tables, text_content,
                   full_table, amount_columns, total_calculated, co_calls>>
    /\ UNCHANGED muVars

\* Mutant: st.stop() is missing, so the run goes on to pd.concat([]), which
\* raises.
NoTablesContinues ==
    /\ pc = "pages"
    /\ pages_left = 0
    /\ tables = <<>>
    /\ Goto("done", << Call("no_tables", "error", <<>>) >> \o ExceptionCalls("concat"))
    /\ UNCHANGED <<file_type, pages_left, page_number, tables, text_content,
                   full_table, amount_columns, total_calculated, co_calls>>
    /\ UNCHANGED muVars

\* Lines 83-85: no table was accepted; st.stop() ends the run (it raises a
\* BaseException, which "except Exception" at line 167 does not catch).
NoTables ==
    /\ pc = "pages"
    /\ pages_left = 0
    /\ tables = <<>>
    /\ Goto("stopped", << Call("no_tables", "error", <<>>) >>)
    /\ UNCHANGED <<file_type, pages_left, page_number, tables, text_content,
                   full_table, amount_columns, total_calculated, co_calls>>
    /\ UNCHANGED muVars

\* Lines 87-93: the tables are combined and the combined table is shown.
Combine ==
    /\ pc = "pages"
    /\ pages_left = 0
    /\ tables # <<>>
    /\ ~ConcatRaises(tables)
    /\ full_table' = Concat(tables)
    /\ Goto("combined",
            << Call("subheader", "write", "Extracted Financial Data"),
               Call("table", "write", Concat(tables).columns) >>)
    /\ UNCHANGED <<file_type, pages_left, page_number, tables, text_content,
                   amount_columns, total_calculated, co_calls>>
    /\ UNCHANGED muVars

\* Line 88 raises; lines 167-169 handle it.
CombineRaises ==
    /\ pc = "pages"
    /\ pages_left = 0
    /\ tables # <<>>
    /\ ConcatRaises(tables)
    /\ Goto("done", ExceptionCalls("concat"))
    /\ UNCHANGED <<file_type, pages_left, page_number, tables, text_content,
                   full_table, amount_columns, total_calculated, co_calls>>
    /\ UNCHANGED muVars

\* Lines 95-103: the header is normalized, the column names are shown and
\* the amount columns are selected.
NormalizeHeader ==
    /\ pc = "combined"
    /\ full_table' = [full_table EXCEPT !.columns = NormalizeColumns(full_table.columns)]
    /\ amount_columns' = AmountColumns(NormalizeColumns(full_table.columns))
    /\ Goto("selected",
            << Call("column_names", "write", NormalizeColumns(full_table.columns)) >>)
    /\ UNCHANGED <<file_type, pages_left, page_number, tables, text_content,
                   total_calculated, co_calls>>
    /\ UNCHANGED muVars

\* Lines 105-115: the amount columns are made numeric and summed.
SumAmountColumns ==
    /\ pc = "selected"
    /\ amount_columns # <<>>
    /\ ~NormalizeRaises(full_table.columns, amount_columns)
    /\ full_table' = NormalizeAmounts(full_table, amount_columns)
    /\ total_calculated' = SumAmounts(NormalizeAmounts(full_table, amount_columns),
                                      amount_columns)
    /\ Goto("summed", <<>>)
    /\ UNCHANGED <<file_type, pages_left, page_number, tables, text_content,
                   amount_columns, co_calls>>
    /\ UNCHANGED muVars

\* Lines 109-110 raise on a repeated amount label; lines 167-169 handle it.
SumAmountColumnsRaises ==
    /\ pc = "selected"
    /\ amount_columns # <<>>
    /\ NormalizeRaises(full_table.columns, amount_columns)
    /\ Goto("done", ExceptionCalls("amounts"))
    /\ UNCHANGED <<file_type, pages_left, page_number, tables, text_content,
                   full_table, amount_columns, total_calculated, co_calls>>
    /\ UNCHANGED muVars

\* Lines 120-132: the call that reports the comparison with the stated total.
Verdict(text, calculated) ==
    LET total_amounts == FindAll(text) IN
    IF total_amounts # <<>>
    THEN LET total_provided == RemoveChars(total_amounts[1], {","}) IN
         IF IsDecimal(total_provided)
         THEN IF Abs(calculated - DecimalValue(total_provided)) < Tolerance
              THEN Call("match", "success", <<>>)
              ELSE Call("discrepancy", "error",
                        <<calculated, DecimalValue(total_provided)>>)
         ELSE Call("not_convertible", "error", <<>>)
    ELSE Call("not_identified", "warning", <<>>)

\* Mutant: the calculated total is shown before the comparison is reported.
CompareTotalsAfterTotal ==
    /\ pc = "summed"
    /\ Goto("review",
            << Call("subheader", "write", "Calculated Total Amount"),
               Call("calculated_total", "write", total_calculated),
               Verdict(text_content, total_calculated) >>)
    /\ UNCHANGED <<file_type, pages_left, page_number, tables, text_content,
                   full_table, amount_columns, total_calculated, co_calls>>
    /\ UNCHANGED muVars

\* Lines 117-132: the stated total is looked up and compared.
CompareTotals ==
    /\ pc = "summed"
    /\ Goto("compared", << Verdict(text_content, total_calculated) >>)
    /\ UNCHANGED <<file_type, pages_left, page_number, tables, text_content,
                   full_table, amount_columns, total_calculated, co_calls>>
    /\ UNCHANGED muVars

\* Lines 134-136: the calculated total is shown, formatted with :.2f.
DisplayCalculated ==
    /\ pc = "compared"
    /\ Goto("review",
            << Call("subheader", "write", "Calculated Total Amount"),
               Call("calculated_total", "write", total_calculated) >>)
    /\ UNCHANGED <<file_type, pages_left, page_number, tables, text_content,
                   full_table, amount_columns, total_calculated, co_calls>>
    /\ UNCHANGED muVars

\* Mutant: the Reviewer call sits inside the amount branch, so a run with no
\* amount column ends after its error.
NoAmountColumnsEnds ==
    /\ pc = "selected"
    /\ amount_columns = <<>>
    /\ Goto("done", << Call("no_amount_columns", "error", <<>>) >>)
    /\ UNCHANGED <<file_type, pages_left, page_number, tables, text_content,
                   full_table, amount_columns, total_calculated, co_calls>>
    /\ UNCHANGED muVars

\* Lines 138-139: no amount column.
NoAmountColumns ==
    /\ pc = "selected"
    /\ amount_columns = <<>>
    /\ Goto("review", << Call("no_amount_columns", "error", <<>>) >>)
    /\ UNCHANGED <<file_type, pages_left, page_number, tables, text_content,
                   full_table, amount_columns, total_calculated, co_calls>>
    /\ UNCHANGED muVars

\* Lines 141-161: co.generate returns.
CallReviewer ==
    /\ pc = "review"
    /\ co_calls' = co_calls + 1
    /\ Goto("analysed", <<>>)
    /\ UNCHANGED <<file_type, pages_left, page_number, tables, text_content,
                   full_table, amount_columns, total_calculated>>
    /\ UNCHANGED muVars

\* Lines 143-161 raise; lines 167-169 handle it.
ReviewerRaises ==
    /\ pc = "review"
    /\ co_calls' = co_calls + 1
    /\ Goto("done", ExceptionCalls("reviewer"))
    /\ UNCHANGED <<file_type, pages_left, page_number, tables, text_content,
                   full_table, amount_columns, total_calculated>>
    /\ UNCHANGED muVars

\* Lines 163-165: the analysis is shown.
DisplayAnalysis ==
    /\ pc = "analysed"
    /\ Goto("done",
            << Call("subheader", "write", "Cohere Analysis"),
               Call("analysis", "write", <<>>) >>)
    /\ UNCHANGED <<file_type, pages_left, page_number, tables, text_content,
                   full_table, amount_columns, total_calculated, co_calls>>
    /\ UNCHANGED muVars

Next ==
    \/ ApiKeyMissing
    \/ CreateClient
    \/ NoUpload
    \/ UploadOther
    \/ UploadPdf
    \/ OpenPdf
    \/ OpenRaises
    \/ ProcessPage
    \/ ExtractRaises
    \/ NoTables
    \/ Combine
    \/ CombineRaises
    \/ NormalizeHeader
    \/ SumAmountColumns
    \/ SumAmountColumnsRaises
    \/ CompareTotals
    \/ DisplayCalculated
    \/ NoAmountColumns
    \/ CallReviewer
    \/ ReviewerRaises
    \/ DisplayAnalysis

Spec == Init /\ [][Next]_vars

----------------------------------------------------------------------------
(* make_unique run on its own, on bounded inputs.                          *)

D_Empty   == <<>>
D_X       == <<"X">>
D_XSp     == <<"X"," ">>
D_X1      == <<"X",".","1">>
D_Unnamed == <<"U","n","n","a","m","e","d">>

DedupeLabels == {None, D_Empty, D_X, D_XSp, D_X1, D_Unnamed}

DedupeInputs == UNION {[1..n -> DedupeLabels] : n \in 0..MaxLen}

InitDedupe ==
    /\ RunInit
    /\ columns \in DedupeInputs
    /\ counts = EmptyDict
    /\ new_columns = <<>>
    /\ mu_pc = "loop"

\* Lines 31-42: one iteration of the loop.
MakeUniqueIter ==
    /\ mu_pc = "loop"
    /\ Len(new_columns) < Len(columns)
    /\ LET r == MakeUniqueBody(columns[Len(new_columns) + 1], counts, new_columns) IN
          /\ counts' = r.counts
          /\ new_columns' = r.new_columns
    /\ UNCHANGED <<columns, mu_pc>>
    /\ UNCHANGED runVars

\* Line 43: return new_columns.
MakeUniqueReturn ==
    /\ mu_pc = "loop"
    /\ Len(new_columns) = Len(columns)
    /\ mu_pc' = "returned"
    /\ UNCHANGED <<columns, counts, new_columns>>
    /\ UNCHANGED runVars

NextDedupe == MakeUniqueIter \/ MakeUniqueReturn

SpecDedupe == InitDedupe /\ [][NextDedupe]_vars

----------------------------------------------------------------------------
(* Properties.                                                             *)

VerdictKinds == {"match", "discrepancy", "not_identified", "not_convertible"}

OutcomeKinds == VerdictKinds \cup {"no_amount_columns"}

EmittedAny(kinds) == \E i \in 1..Len(out) : out[i].kind \in kinds

\* The handler of lines 167-169 ran for an exception raised at the place.
Raised(place) ==
    \E i \in 1..Len(out) : out[i].kind = "processing_error" /\ out[i].data = place

\* The header of the combined table has been normalized (line 97 has run).
HeaderNormalized == full_table.made /\ pc # "combined"

\* The run is over.
Finished == pc \in {"done", "stopped"}

\* The transcript's first "Total Amount" match, commas removed.
FirstStated == RemoveChars(FindAll(text_content)[1], {","})

StatedConverts == FindAll(text_content) # <<>> /\ IsDecimal(FirstStated)

\* C1: in every finished run where amount columns exist and the first
\* "Total Amount" match converts to a number, exactly one verdict is
\* emitted: "match" if and only if |calculated - stated| < 0.01, otherwise
\* "discrepancy" with the calculated and the stated total.
C1_ExactlyOneVerdict ==
    (Finished /\ amount_columns # <<>> /\ StatedConverts) =>
        /\ Count("match") + Count("discrepancy") = 1
        /\ Emitted("match") <=>
              Abs(total_calculated - DecimalValue(FirstStated)) < Tolerance
        /\ \A i \in 1..Len(out) :
              out[i].kind = "discrepancy" =>
                  out[i].data = <<total_calculated, DecimalValue(FirstStated)>>

\* C1, where it holds: the same statement for the runs whose amount columns
\* bear distinct names (lines 107-115 do not raise).
C1_WhenNamesDistinct ==
    (Finished /\ amount_columns # <<>> /\ StatedConverts
        /\ NoDuplicates(full_table.columns)) =>
        /\ Count("match") + Count("discrepancy") = 1
        /\ ~EmittedAny({"not_identified", "not_convertible"})
        /\ Emitted("match") <=>
              Abs(total_calculated - DecimalValue(FirstStated)) < Tolerance
        /\ \A i \in 1..Len(out) :
              out[i].kind = "discrepancy" =>
                  out[i].data = <<total_calculated, DecimalValue(FirstStated)>>

\* C2: when every page has been processed (no exception raised on the way)
\* and no table was accepted, the run reports the no-tables error and stops: nothing is shown after it, no
\* table is combined, no header or amount is normalized, no total is
\* calculated, no verdict is reported and the Reviewer is not called.
C2_NoTablesStops ==
    (file_type = PdfType /\ pc \notin {"open", "pages"} /\ tables = <<>>
        /\ ~Raised("open") /\ ~Raised("extract")) =>
        /\ pc = "stopped"
        /\ Count("no_tables") = 1
        /\ out[Len(out)].kind = "no_tables"
        /\ ~EmittedAny(OutcomeKinds \cup
                       {"table", "column_names", "calculated_total", "analysis"})
        /\ ~full_table.made
        /\ amount_columns = <<>>
        /\ total_calculated = 0
        /\ co_calls = 0

\* Witness of C2: pages were processed, tables were skipped, none accepted,
\* and the run has stopped on the no-tables error.
C2_Witness ==
    /\ pc = "stopped"
    /\ Emitted("no_tables")
    /\ Emitted("skipped_table")
    /\ page_number > 1
    /\ tables = <<>>

\* C3: when a combined table exists and none of its normalized column
\* names contains "amount", "price" or "total", then once the selection at
\* line 105 is passed the no-amount-columns error has been emitted exactly
\* once, no verdict and no calculated total is emitted, and the combined
\* table and the column names shown before are still among the outputs.
C3_NoAmountColumns ==
    (HeaderNormalized /\ pc # "selected"
        /\ \A k \in 1..Len(full_table.columns) : ~IsAmountLabel(full_table.columns[k])) =>
        /\ Count("no_amount_columns") = 1
        /\ ~EmittedAny(VerdictKinds \cup {"calculated_total"})
        /\ total_calculated = 0
        /\ Count("table") = 1
        /\ Count("column_names") = 1
        /\ FirstIndex("table") < FirstIndex("column_names")
        /\ FirstIndex("column_names") < FirstIndex("no_amount_columns")

\* Witness of C3: a finished run with an accepted table, no amount column,
\* and the error emitted after the table and the column names.
C3_Witness ==
    /\ pc = "done"
    /\ tables # <<>>
    /\ HeaderNormalized
    /\ amount_columns = <<>>
    /\ Emitted("no_amount_columns")
    /\ Emitted("table")
    /\ Emitted("column_names")

\* C4: when the Reviewer call raises, the failure is reported as a warning
\* and by no call of error severity, and the outputs produced before the
\* call are all still there.
C4_ReviewerFailureIsWarning ==
    Raised("reviewer") =>
        /\ \A i \in 1..Len(out) :
              out[i].kind \in {"processing_error", "traceback"} =>
                  out[i].sev = "warning"
        /\ Emitted("table") /\ Emitted("column_names") /\ EmittedAny(OutcomeKinds)

\* C4, the part that holds: when the Reviewer call raises, the combined
\* table, the column names and the reconciliation outcome emitted before
\* the call are still among the outputs, before the report of the failure.
C4_ResultsKept ==
    Raised("reviewer") =>
        /\ pc = "done"
        /\ co_calls = 1
        /\ Count("table") = 1 /\ Count("column_names") = 1
        /\ EmittedAny(OutcomeKinds)
        /\ \A i \in 1..Len(out) :
              out[i].kind \in OutcomeKinds \cup {"table", "column_names", "calculated_total"}
                  => i < FirstIndex("processing_error")
        /\ full_table.made

\* First occurrences: entry i of the input is the first to normalize to its
\* name.
FirstOccurrence(cols, i) ==
    \A j \in 1..(i - 1) : cols[j] # cols[i]

\* C5: make_unique returns a sequence as long as its input, with no
\* duplicate entry, and the first occurrence of each name stands unsuffixed
\* at its position.
C5_OutputUnique ==
    mu_pc = "returned" =>
        /\ Len(new_columns) = Len(columns)
        /\ NoDuplicates(new_columns)
        /\ LET names == [i \in 1..Len(columns) |->
                            Strip(IF columns[i] = None THEN D_Unnamed ELSE columns[i])]
           IN  \A i \in 1..Len(columns) :
                   FirstOccurrence(names, i) => new_columns[i] = names[i]

\* C5, the part that holds: the length is kept and every first occurrence
\* stands unsuffixed at its position.
C5_LengthAndFirsts ==
    mu_pc = "returned" =>
        /\ Len(new_columns) = Len(columns)
        /\ LET names == [i \in 1..Len(columns) |->
                            Strip(IF columns[i] = None THEN D_Unnamed ELSE columns[i])]
           IN  \A i \in 1..Len(columns) :
                   FirstOccurrence(names, i) => new_columns[i] = names[i]

\* C6: make_unique replaces null and empty entries by "Unnamed" before it
\* counts repeats, so no entry of the result is empty, and
\* [None, "", "X"] gives ["Unnamed", "Unnamed.1", "X"].
C6_BlanksBecomeUnnamed ==
    mu_pc = "returned" =>
        /\ \A i \in 1..Len(new_columns) : new_columns[i] # <<>>
        /\ columns = <<None, D_Empty, D_X>> =>
              new_columns = <<D_Unnamed, D_Unnamed \o <<".", "1">>, D_X>>

\* Positions in out of the calls of the kinds, as a set.
Positions(kinds) == {i \in 1..Len(out) : out[i].kind \in kinds}

\* Every call of the first kinds comes before every call of the second.
Before(first, second) ==
    \A i \in Positions(first), j \in Positions(second) : i < j

\* C7 as stated: table, column names, calculated total, verdict, analysis,
\* in this order; the calculated total is never shown after the verdict.
C7_TotalBeforeVerdict ==
    /\ Before({"table"}, {"column_names"})
    /\ Before({"column_names"}, {"calculated_total"})
    /\ Before({"calculated_total"}, VerdictKinds)
    /\ Before(VerdictKinds, {"analysis"})

\* C7 as amended: the combined table, then the column names, then the
\* verdict, then the calculated total, then the analysis; each is emitted at
\* most once and the calculated total is never shown before the verdict.
C7_VerdictBeforeTotal ==
    /\ Before({"table"}, {"column_names"})
    /\ Before({"column_names"}, VerdictKinds)
    /\ Before(VerdictKinds, {"calculated_total"})
    /\ Before({"calculated_total"}, {"analysis"})
    /\ Before({"table", "column_names"} \cup VerdictKinds, {"analysis"})
    /\ Emitted("calculated_total") => EmittedAny(VerdictKinds)
    /\ \A k \in {"table", "column_names", "calculated_total", "analysis"} : Count(k) <= 1
    /\ Cardinality(Positions(VerdictKinds)) <= 1

\* Witness of C7: a run that emitted all five outputs.
C7_Witness ==
    /\ pc = "done"
    /\ Emitted("table")
    /\ Emitted("column_names")
    /\ Emitted("discrepancy")
    /\ Emitted("calculated_total")
    /\ Emitted("analysis")

\* C8: in a finished run where amount columns exist and the transcript has
\* no "Total Amount" match, the could-not-identify outcome is reported as a
\* warning, neither "match" nor "discrepancy" is emitted, and the
\* calculated total is shown.
C8_NotIdentified ==
    (Finished /\ amount_columns # <<>> /\ FindAll(text_content) = <<>>) =>
        /\ Count("not_identified") = 1
        /\ \A i \in 1..Len(out) :
              out[i].kind = "not_identified" => out[i].sev = "warning"
        /\ ~EmittedAny({"match", "discrepancy"})
        /\ Count("calculated_total") = 1

\* C8, where it holds: the same statement for the runs whose amount columns
\* bear distinct names.
C8_WhenNamesDistinct ==
    (Finished /\ amount_columns # <<>> /\ FindAll(text_content) = <<>>
        /\ NoDuplicates(full_table.columns)) =>
        /\ Count("not_identified") = 1
        /\ \A i \in 1..Len(out) :
              out[i].kind = "not_identified" => out[i].sev = "warning"
        /\ ~EmittedAny({"match", "discrepancy", "not_convertible"})
        /\ Count("calculated_total") = 1

\* C9: once the header of the combined table is normalized, no two of its
\* columns bear the same name.
C9_HeaderUnique ==
    HeaderNormalized => NoDuplicates(full_table.columns)

\* The exceptions that can be raised before the Reviewer is called.
RaisedBeforeCall ==
    Raised("open") \/ Raised("extract") \/ Raised("concat") \/ Raised("amounts")

\* C10: the Reviewer is never called more than once; it is called only in
\* a run whose upload is a PDF with at least one accepted table, after the
\* reconciliation outcome has been emitted, and never in a run that was
\* rejected for its file type, failed in extraction or found no table; and
\* every finished run with a PDF, an accepted table and no exception before
\* the call has called it exactly once, whatever the outcome was.
C10_Safety ==
    /\ co_calls <= 1
    /\ co_calls = 1 =>
          /\ file_type = PdfType
          /\ tables # <<>>
          /\ ~RaisedBeforeCall
          /\ ~EmittedAny({"invalid_file_type", "no_tables"})
    /\ (pc = "done" /\ file_type = PdfType /\ tables # <<>> /\ ~RaisedBeforeCall) =>
          co_calls = 1
    /\ EmittedAny({"invalid_file_type", "no_tables"}) \/ RaisedBeforeCall => co_calls = 0

C10_CalledAfterOutcome ==
    co_calls' # co_calls =>
        /\ co_calls' = co_calls + 1
        /\ Cardinality(Positions(OutcomeKinds)) = 1
        /\ out[Len(out)].kind \in {"no_amount_columns", "calculated_total"}

C10_ReviewerOnce == []C10_Safety /\ [][C10_CalledAfterOutcome]_vars

\* Witnesses of C10: the Reviewer was called once in a finished run, after
\* each of the five outcomes.
C10_Witness ==
    /\ pc = "done"
    /\ co_calls = 1
    /\ Emitted("not_convertible")
    /\ Emitted("analysis")

====
